---- MODULE Spec2Model ----
(***************************************************************************)
(* Model of album2embedcodes.py: the hotlink-URL normaliser, the embed     *)
(* code template and the scroll / pagination traversal of a Flickr album,  *)
(* as driven by the command-line entry point.                              *)
(*                                                                         *)
(* Strings that the code parses are sequences of one-character strings, so *)
(* that the regular expressions are modelled by what they match.           *)
(***************************************************************************)
EXTENDS Integers, Sequences, FiniteSets, TLC

VARIABLES
    \* ---- pure-function harness (SpecURL) ----
    hotlink,        \* the components two hotlink URLs are built from
    resA, resB,     \* result of hotlink_url2embed_url on each, once called
    \* ---- browser (environment) ----
    album,          \* what the browser will show: kind, number of pages, batch
    page,           \* page the browser is on (0 before browser.get)
    title_bad,      \* 'Problem' in browser.title
    has_awake,      \* find_elements_by_class_name('awake') non-empty on entry
    loaded,         \* photos lazily loaded so far on the current page
    closeCalls,     \* number of calls of browser.close()
    \* ---- program ----
    pc,             \* control position of the command-line run
    output,         \* get_photo_urls(output=...)
    progressbar,    \* get_photo_urls(progressbar=...)
    urls,           \* _get_page_photos: urls (known_urls of the current page)
    num_of_urls,    \* _get_page_photos: num_of_urls
    photo_urls,     \* get_photo_urls: photo_urls (empty before it is bound)
    err,            \* the exception that ended get_photo_urls, or NoError
    image_elems,    \* frame of _get_visible_photos kept by a raised exception
    elem_idx,       \* ... and the element its loop was at
    \* ---- observation ----
    out,            \* what was printed: <<element, embed code>> records
    scrolls,        \* scroll-and-wait cycles on the current page
    increases,      \* cycles on the current page that raised num_of_urls
    clicks,         \* activations of the next-page control
    pageSets        \* the sets returned by _get_page_photos, in order

vars == <<hotlink, resA, resB, album, page, title_bad, has_awake, loaded,
          closeCalls, pc, output, progressbar, urls, num_of_urls, photo_urls,
          err, image_elems, elem_idx, out, scrolls, increases, clicks,
          pageSets>>

urlVars == <<hotlink, resA, resB>>
runVars == <<album, page, title_bad, has_awake, loaded, closeCalls, pc,
             output, progressbar, urls, num_of_urls, photo_urls, err,
             image_elems, elem_idx, out, scrolls, increases, clicks,
             pageSets>>

(***************************************************************************)
(* Bounds of the model                                                     *)
(***************************************************************************)
MaxIdLen == 3       \* longest image id of the pure-function harness
MaxPages == 2       \* most pages of a small album
MaxVisible == 2     \* most 'awake' elements one scan of a small page finds
BigPhotos == 101    \* photos on the page of the big album
BigBatch == 3       \* photos a scroll of the big album loads (or one)

(***************************************************************************)
(* Characters and literals                                                 *)
(***************************************************************************)
IsDigit(c) == c \in {"0", "1", "2", "3", "4", "5", "6", "7", "8", "9"}
IsSpace(c) == c \in {" ", "\t", "\n", "\r"}
IsDot(c) == c # "\n"

LitAt(s, p, lit) ==
    /\ p + Len(lit) - 1 <= Len(s)
    /\ \A k \in 1..Len(lit) : s[p + k - 1] = lit[k]

DigitsAt(s, p, n) == \A j \in p..(p + n - 1) : IsDigit(s[j])

AtEnd(s, p) == p = Len(s) + 1 \/ (p = Len(s) /\ s[p] = "\n")

StaticFlickr == <<".", "s", "t", "a", "t", "i", "c", "f", "l", "i", "c", "k", "r">>
ComSlash == <<"c", "o", "m", "/">>
DotJpg == <<".", "j", "p", "g">>
HttpsFarm == <<"h", "t", "t", "p", "s", ":", "/", "/", "f", "a", "r", "m">>
DotStaticFlickrCom == StaticFlickr \o <<".">> \o ComSlash

\* F of the value of x, with x evaluated once
With(x, F(_)) == CHOOSE y \in { F(v) : v \in {x} } : TRUE

SetMax(S) == CHOOSE x \in S : \A y \in S : y <= x
SetMin(S) == CHOOSE x \in S : \A y \in S : x <= y

(***************************************************************************)
(* HOTLINK_URL_REGEX, matched as re.match does: greedy \d+, lazy image_id, *)
(* greedy optional suffix, first match in that order of preference.        *)
(***************************************************************************)
\* the same with the file extension forgotten: (image_id)(image_size)$
TailMatchesNoExt(s, p) ==
    { kz \in (0..Len(s)) \X {0, 2} :
        LET q == p + kz[1]
            z == kz[2]
        IN  /\ q + z - 1 <= Len(s)
            /\ AtEnd(s, q + z)
            /\ z = 2 => (s[q] = "_" /\ ~IsSpace(s[q + 1]))
            /\ \A j \in p..(q - 1) : IsDot(s[j]) }

\* (image_id)(image_size)\.jpg$ from position p: the <<length of image_id,
\* length of image_size>> pairs for which the rest of the pattern matches
TailMatches(s, p) ==
    { kz \in (0..Len(s)) \X {0, 2} :
        LET q == p + kz[1]
            z == kz[2]
        IN  /\ q + z + 3 <= Len(s)
            /\ LitAt(s, q + z, DotJpg)
            /\ AtEnd(s, q + z + 4)
            /\ z = 2 => (s[q] = "_" /\ ~IsSpace(s[q + 1]))
            /\ \A j \in p..(q - 1) : IsDot(s[j]) }

\* (farm_id)/ from position p: the lengths of farm_id that let the rest match
FarmMatches(s, p) ==
    { n \in 1..Len(s) :
        /\ p + n <= Len(s)
        /\ s[p + n] = "/"
        /\ DigitsAt(s, p, n)
        /\ TailMatches(s, p + n + 1) # {} }

\* ^(c\d+)\.staticflickr.com/ : the lengths of the digit run of the subdomain
SubMatches(s) ==
    { n \in 1..Len(s) :
        /\ Len(s) >= 1 /\ s[1] = "c"
        /\ LitAt(s, 2 + n, StaticFlickr)
        /\ DigitsAt(s, 2, n)
        /\ 2 + n + 13 <= Len(s) /\ IsDot(s[2 + n + 13])
        /\ LitAt(s, 2 + n + 14, ComSlash)
        /\ FarmMatches(s, 2 + n + 18) # {} }

\* the groups of the match, given the lengths the engine settles on: n2 for
\* farm_id at pf, then the shortest image_id and the suffix if one matches
Groups(s, pf, n2, tm, k) ==
    [ok |-> TRUE,
     farm_id |-> SubSeq(s, pf, pf + n2 - 1),
     image_id |-> SubSeq(s, pf + n2 + 1, pf + n2 + k),
     image_size |-> SubSeq(s, pf + n2 + 1 + k,
                           pf + n2 + k + (IF <<k, 2>> \in tm THEN 2 ELSE 0))]

TailOf(s, pf, n2, tm) ==
    With(SetMin({ kz[1] : kz \in tm }), LAMBDA k : Groups(s, pf, n2, tm, k))

FarmOf(s, pf, n2) ==
    With(TailMatches(s, pf + n2 + 1), LAMBDA tm : TailOf(s, pf, n2, tm))

SubOf(s, pf) ==
    With(SetMax(FarmMatches(s, pf)), LAMBDA n2 : FarmOf(s, pf, n2))

\* re.match(HOTLINK_URL_REGEX, hotlink_url, re.VERBOSE): None, or the groups
HotlinkMatch(s) ==
    With(SubMatches(s),
         LAMBDA sm : IF sm = {} THEN [ok |-> FALSE]
                     ELSE SubOf(s, 2 + SetMax(sm) + 18))

\* the embed URL with the size suffix kept in it
EmbedOfKeepSize(match) ==
    IF match.ok
    THEN [ok |-> TRUE,
          value |-> HttpsFarm \o match.farm_id \o DotStaticFlickrCom
                    \o match.image_id \o match.image_size \o DotJpg]
    ELSE [ok |-> FALSE]

\* 'https://farm{}.staticflickr.com/{}.jpg'.format(farm_id, image_id), or the
\* AttributeError of None.group
EmbedOf(match) ==
    IF match.ok
    THEN [ok |-> TRUE,
          value |-> HttpsFarm \o match.farm_id \o DotStaticFlickrCom
                    \o match.image_id \o DotJpg]
    ELSE [ok |-> FALSE]

hotlink_url2embed_url(hotlink_url) == With(HotlinkMatch(hotlink_url), EmbedOf)

(***************************************************************************)
(* Pure-function harness: two hotlink URLs that differ only in the suffix  *)
(***************************************************************************)
IdChars == {"a", "_", "7", " ", "\n"}
RECURSIVE SeqsUpTo(_, _)
SeqsUpTo(S, n) ==
    IF n = 0 THEN {<<>>}
    ELSE LET shorter == SeqsUpTo(S, n - 1)
         IN  shorter \cup { Append(t, c) : t \in shorter, c \in S }

ImageIds == SeqsUpTo(IdChars, MaxIdLen)
Suffixes == {<<>>, <<"_", "b">>, <<"_", "z">>, <<"_", " ">>}
Subdomains == {<<"c", "1">>}
FarmIds == {<<"1">>, <<"6", "6">>}

\* '<subdomain>.staticflickr.com/<farm_id>/<image_id><suffix>.jpg'
MakeHotlink(sub, farm, id, sfx) ==
    sub \o DotStaticFlickrCom \o farm \o <<"/">> \o id \o sfx \o DotJpg

\* 'https://farm<farm_id>.staticflickr.com/<image_id>.jpg'
ExpectedEmbed(farm, id) == HttpsFarm \o farm \o DotStaticFlickrCom \o id \o DotJpg

UrlA == MakeHotlink(hotlink.sub, hotlink.farm, hotlink.id, hotlink.sfxA)
UrlB == MakeHotlink(hotlink.sub, hotlink.farm, hotlink.id, hotlink.sfxB)

Pending == [state |-> "pending"]
Unused == [state |-> "unused"]
Done(r) == [state |-> "done", res |-> r]

ConvertA ==
    /\ resA = Pending
    /\ \E r \in { hotlink_url2embed_url(UrlA) } : resA' = Done(r)
    /\ UNCHANGED <<hotlink, resB>>
    /\ UNCHANGED runVars

ConvertB ==
    /\ resB = Pending
    /\ \E r \in { hotlink_url2embed_url(UrlB) } : resB' = Done(r)
    /\ UNCHANGED <<hotlink, resA>>
    /\ UNCHANGED runVars

(***************************************************************************)
(* Photo elements of an album page                                         *)
(***************************************************************************)
C1Sub == <<"c", "1">>
NoTitle == <<"-">>      \* the element has no 'interaction-bar' child
NoOverlay == "none"     \* the element has no 'overlay' child

\* An 'awake' element: whether STYLE_STRING_PATTERN matches its style, the
\* width, height and url groups, its overlay href and its title attribute.
Elem(ok, w, h, u, ov, t) ==
    [style_ok |-> ok, width |-> w, height |-> h, url |-> u, overlay |-> ov,
     title_str |-> t]

Photos ==
    << Elem(TRUE, 500, 334, MakeHotlink(C1Sub, <<"1">>, <<"a">>, <<>>),
            "photos/a", <<"S", " ", "b", "y", " ", "x">>),
       Elem(TRUE, 334, 500, MakeHotlink(C1Sub, <<"1">>, <<"a">>, <<"_", "b">>),
            NoOverlay, NoTitle),
       Elem(TRUE, 400, 400, MakeHotlink(C1Sub, <<"1">>, <<"b">>, <<"_", "z">>),
            "photos/b", <<" ", "b", "y">>),
       Elem(TRUE, 500, 334, C1Sub \o DotStaticFlickrCom \o <<"1", "/", "x">>,
            "photos/x", NoTitle),
       Elem(FALSE, 0, 0, <<>>, NoOverlay, NoTitle) >>

RECURSIVE Pick(_, _)
\* the elements of Photos at the positions I, in document order
Pick(I, from) ==
    IF from > Len(Photos) THEN <<>>
    ELSE IF from \in I THEN <<Photos[from]>> \o Pick(I, from + 1)
         ELSE Pick(I, from + 1)

SmallScans ==
    { Pick(I, 1) : I \in { J \in SUBSET (1..Len(Photos)) : Cardinality(J) <= MaxVisible } }

DigitChar == <<"0", "1", "2", "3", "4", "5", "6", "7", "8", "9">>
RECURSIVE Decimal(_)
Decimal(n) ==
    IF n < 10 THEN <<DigitChar[n + 1]>>
    ELSE Decimal(n \div 10) \o <<DigitChar[(n % 10) + 1]>>

\* photo n of the big album
BigPhoto(n) ==
    Elem(TRUE, 500, 334, MakeHotlink(C1Sub, <<"2">>, Decimal(n), <<>>),
         NoOverlay, NoTitle)

\* the 'awake' elements of the big album when ld photos are loaded: the batch
\* loaded last
BigScan(ld, batch) ==
    LET lo == IF ld > batch THEN ld - batch + 1 ELSE 1
    IN  [ i \in 1..(ld - lo + 1) |-> BigPhoto(lo + i - 1) ]

Albums ==
    { [kind |-> "small", pages |-> p, batch |-> 0] : p \in 1..MaxPages }
    \cup { [kind |-> "big", pages |-> 1, batch |-> b] : b \in {1, BigBatch} }

\* what a scroll can load and what a scan then finds
Loads == IF album.kind = "big"
         THEN { loaded, IF loaded + album.batch > BigPhotos THEN BigPhotos
                        ELSE loaded + album.batch }
         ELSE { 0 }
Scans(ld) == IF album.kind = "big" THEN { BigScan(ld, album.batch) } ELSE SmallScans

CurrentUrl(p) == "album/page" \o ToString(p)

(***************************************************************************)
(* Exceptions                                                              *)
(***************************************************************************)
Exc(t, m, u) == [type |-> t, msg |-> m, url |-> u]
NoError == Exc("none", "", <<>>)
SiteProblem == Exc("WebDriverException", "Problem loading page", <<>>)
NotAnAlbum == Exc("NoSuchElementException", "Is this really a Flickr Album page?", <<>>)
NoPhotoCounts == Exc("NoSuchElementException", "photo-counts", <<>>)
NoNextButton == Exc("NoSuchElementException", "paginationRightClick", <<>>)
NoneGroup == Exc("AttributeError", "'NoneType' object has no attribute 'group'", <<>>)
CantConvert(u) == Exc("AttributeError", "Warning: can't convert URL: {}", u)

(***************************************************************************)
(* get_orientation, the title pattern, embed_url2embed_code                *)
(***************************************************************************)
get_orientation_tie(width, height) ==
    IF width >= height THEN "landscape" ELSE "portrait"

get_orientation(width, height) ==
    IF width > height THEN "landscape" ELSE "portrait"

\* re.match('^(?P<title>.*) by.*$', title_str): the starts of ' by' that let
\* the pattern match; the greedy .* takes the last
TitleMatches(t) ==
    { p \in 1..Len(t) :
        /\ LitAt(t, p, <<" ", "b", "y">>)
        /\ \A j \in 1..Len(t) : IsDot(t[j]) }

embed_url2embed_code(image_url, image_page, title, orientation) ==
    LET width == IF orientation = "landscape" THEN 500 ELSE 334
        height == IF orientation = "landscape" THEN 334 ELSE 500
    IN  [href |-> image_page, title |-> title, src |-> image_url,
         width |-> width, height |-> height, alt |-> title]

(***************************************************************************)
(* _get_visible_photos                                                     *)
(***************************************************************************)
\* the end of one turn of the loop over image_elems, given the result of
\* hotlink_url2embed_url: the known set and the printed output after it, and
\* the exception raised
Converted(elem, known, printed, outp, cur, title, res) ==
    IF ~res.ok
    THEN [urls |-> known, out |-> printed, err |-> CantConvert(elem.url)]
    ELSE [urls |-> known \cup {res.value},
          out |-> IF outp = "cli" /\ res.value \notin known
                  THEN Append(printed,
                         [elem |-> elem,
                          code |-> embed_url2embed_code(
                              res.value,
                              IF elem.overlay = NoOverlay THEN cur ELSE elem.overlay,
                              title,
                              get_orientation(elem.width, elem.height))])
                  ELSE printed,
          err |-> NoError]

\* one turn of the loop over image_elems
ScanElem(elem, known, printed, outp, cur) ==
    IF ~elem.style_ok
    THEN [urls |-> known, out |-> printed, err |-> NoneGroup]
    ELSE IF elem.title_str = NoTitle
    THEN With(hotlink_url2embed_url(elem.url),
              LAMBDA res : Converted(elem, known, printed, outp, cur, <<>>, res))
    ELSE IF TitleMatches(elem.title_str) = {}
    THEN [urls |-> known, out |-> printed, err |-> NoneGroup]
    ELSE With(hotlink_url2embed_url(elem.url),
              LAMBDA res : Converted(elem, known, printed, outp, cur,
                  SubSeq(elem.title_str, 1,
                         SetMax(TitleMatches(elem.title_str)) - 1),
                  res))

RECURSIVE ScanFrom(_, _, _, _, _, _)
\* the loop after the turn for element i gave r; idx is the element the loop
\* ended at
ScanStep(elems, i, r, outp, cur) ==
    IF r.err # NoError
    THEN [urls |-> r.urls, out |-> r.out, err |-> r.err, idx |-> i]
    ELSE ScanFrom(elems, i + 1, r.urls, r.out, outp, cur)

\* the loop from element i on
ScanFrom(elems, i, known, printed, outp, cur) ==
    IF i > Len(elems)
    THEN [urls |-> known, out |-> printed, err |-> NoError, idx |-> Len(elems)]
    ELSE With(ScanElem(elems[i], known, printed, outp, cur),
              LAMBDA r : ScanStep(elems, i, r, outp, cur))

\* _get_visible_photos(browser, known_urls, output) on the elements found
get_visible_photos(elems, known, printed, outp, cur) ==
    ScanFrom(elems, 1, known, printed, outp, cur)

(***************************************************************************)
(* The program: MaxNumOfUrls is the 100 of `while num_of_urls < 100`       *)
(***************************************************************************)
MaxNumOfUrls == 100

LoopCondInclusive(n) == n <= MaxNumOfUrls
\* while num_of_urls < 100
LoopCond(n) == n < MaxNumOfUrls

IncreasedOrSame(current, n) == current >= n
\* if current_num_of_urls > num_of_urls
Increased(current, n) == current > n

EntryCheckMarkersFirst(tb, ha) ==
    IF ~ha THEN NotAnAlbum ELSE IF tb THEN SiteProblem ELSE NoError
\* the two checks of get_photo_urls after browser.get
EntryCheck(tb, ha) ==
    IF tb THEN SiteProblem ELSE IF ~ha THEN NotAnAlbum ELSE NoError

Replace(photos, next_page_photos) == next_page_photos
\* photo_urls.update(next_page_photos)
Update(photos, next_page_photos) == photos \cup next_page_photos

NextPageMissingRaised == NoNextButton
\* except NoSuchElementException: next_page = False
NextPageMissing == NoError

RunsCloseOnReturn(e) == e = NoError
\* try: ... finally: browser.close()
RunsClose(e) == TRUE

Init ==
    /\ hotlink = [sub |-> <<>>, farm |-> <<>>, id |-> <<>>, sfxA |-> <<>>,
                  sfxB |-> <<>>]
    /\ resA = Unused /\ resB = Unused
    /\ album \in Albums
    /\ page = 0 /\ title_bad = FALSE /\ has_awake = FALSE /\ loaded = 0
    /\ closeCalls = 0
    /\ pc = "start"
    /\ output \in {"cli", "none"}
    /\ progressbar \in BOOLEAN
    /\ urls = {} /\ num_of_urls = 0 /\ photo_urls = {}
    /\ err = NoError /\ image_elems = <<>> /\ elem_idx = 0
    /\ out = <<>> /\ scrolls = 0 /\ increases = 0 /\ clicks = 0
    /\ pageSets = <<>>

\* get_photo_urls: browser.get(album_url) and the two checks of the page
Navigate ==
    /\ pc = "start"
    /\ \E tb \in BOOLEAN, ha \in BOOLEAN :
          /\ title_bad' = tb /\ has_awake' = ha
          /\ err' = EntryCheck(tb, ha)
          /\ pc' = IF EntryCheck(tb, ha) = NoError THEN "progress" ELSE "finally"
    /\ page' = 1 /\ loaded' = 0
    /\ UNCHANGED <<album, closeCalls, output, progressbar, urls, num_of_urls,
                   photo_urls, image_elems, elem_idx, out, scrolls, increases,
                   clicks, pageSets>>
    /\ UNCHANGED urlVars

\* get_photo_urls: the progress bar, then the call of _get_page_photos
\* (urls = set(), num_of_urls = 0)
EnterFirstPage ==
    /\ pc = "progress"
    /\ \E counts \in BOOLEAN :
          IF progressbar /\ ~counts
          THEN /\ err' = NoPhotoCounts /\ pc' = "finally"
          ELSE /\ err' = err /\ pc' = "loop"
    /\ urls' = {} /\ num_of_urls' = 0 /\ scrolls' = 0 /\ increases' = 0
    /\ UNCHANGED <<album, page, title_bad, has_awake, loaded, closeCalls,
                   output, progressbar, photo_urls, image_elems, elem_idx,
                   out, clicks, pageSets>>
    /\ UNCHANGED urlVars

\* the rest of a turn of the while loop, r being what the scan gave
AfterScroll(elems, r) ==
    /\ scrolls' = scrolls + 1
    /\ urls' = r.urls /\ out' = r.out
    /\ increases' = IF Cardinality(r.urls) > Cardinality(urls)
                    THEN increases + 1 ELSE increases
    /\ IF r.err # NoError
       THEN /\ err' = r.err /\ pc' = "finally"
            /\ image_elems' = elems /\ elem_idx' = r.idx
            /\ UNCHANGED num_of_urls
       ELSE /\ UNCHANGED <<err, image_elems, elem_idx>>
            /\ IF Increased(Cardinality(r.urls), num_of_urls)
               THEN num_of_urls' = Cardinality(r.urls) /\ pc' = "loop"
               ELSE UNCHANGED num_of_urls /\ pc' = "rescan"

\* _get_page_photos: one turn of the while loop
LoopScroll ==
    /\ pc = "loop" /\ LoopCond(num_of_urls)
    /\ \E ld \in Loads : \E elems \in Scans(ld) :
          /\ loaded' = ld
          /\ \E r \in { get_visible_photos(elems, urls, out, output,
                                             CurrentUrl(page)) } :
                AfterScroll(elems, r)
    /\ UNCHANGED <<album, page, title_bad, has_awake, closeCalls, output,
                   progressbar, photo_urls, clicks, pageSets>>
    /\ UNCHANGED urlVars

\* _get_page_photos: the while condition fails
LoopExit ==
    /\ pc = "loop" /\ ~LoopCond(num_of_urls)
    /\ pc' = "rescan"
    /\ UNCHANGED <<album, page, title_bad, has_awake, loaded, closeCalls,
                   output, progressbar, urls, num_of_urls, photo_urls, err,
                   image_elems, elem_idx, out, scrolls, increases, clicks,
                   pageSets>>
    /\ UNCHANGED urlVars

\* the return of _get_page_photos, r being what the last scan gave, and
\* what get_photo_urls does with the returned set
AfterRescan(elems, r) ==
    /\ urls' = r.urls /\ out' = r.out
    /\ IF r.err # NoError
       THEN /\ err' = r.err /\ pc' = "finally"
            /\ image_elems' = elems /\ elem_idx' = r.idx
            /\ UNCHANGED <<photo_urls, pageSets>>
       ELSE /\ UNCHANGED <<err, image_elems, elem_idx>>
            /\ pageSets' = Append(pageSets, r.urls)
            /\ photo_urls' = IF clicks = 0 THEN r.urls
                             ELSE Update(photo_urls, r.urls)
            /\ pc' = "paginate"

\* _get_page_photos: return _get_visible_photos(browser, urls, output)
ReturnPage ==
    /\ pc = "rescan"
    /\ \E elems \in Scans(loaded) :
          \E r \in { get_visible_photos(elems, urls, out, output,
                                         CurrentUrl(page)) } :
              AfterRescan(elems, r)
    /\ UNCHANGED <<album, page, title_bad, has_awake, loaded, closeCalls,
                   output, progressbar, num_of_urls, scrolls, increases,
                   clicks>>
    /\ UNCHANGED urlVars

\* get_photo_urls: the next-page control is found and clicked, and
\* _get_page_photos is called for the new page
NextPage ==
    /\ pc = "paginate" /\ page < album.pages
    /\ page' = page + 1 /\ clicks' = clicks + 1 /\ loaded' = 0
    /\ urls' = {} /\ num_of_urls' = 0 /\ scrolls' = 0 /\ increases' = 0
    /\ pc' = "loop"
    /\ UNCHANGED <<album, title_bad, has_awake, closeCalls, output,
                   progressbar, photo_urls, err, image_elems, elem_idx, out,
                   pageSets>>
    /\ UNCHANGED urlVars

\* get_photo_urls: the next-page control is not found
LastPage ==
    /\ pc = "paginate" /\ page >= album.pages
    /\ err' = NextPageMissing
    /\ pc' = "finally"
    /\ UNCHANGED <<album, page, title_bad, has_awake, loaded, closeCalls,
                   output, progressbar, urls, num_of_urls, photo_urls,
                   image_elems, elem_idx, out, scrolls, increases, clicks,
                   pageSets>>
    /\ UNCHANGED urlVars

\* __main__: the finally clause
Close ==
    /\ pc = "finally"
    /\ closeCalls' = IF RunsClose(err) THEN closeCalls + 1 ELSE closeCalls
    /\ pc' = "exit"
    /\ UNCHANGED <<album, page, title_bad, has_awake, loaded, output,
                   progressbar, urls, num_of_urls, photo_urls, err,
                   image_elems, elem_idx, out, scrolls, increases, clicks,
                   pageSets>>
    /\ UNCHANGED urlVars

Next ==
    \/ Navigate
    \/ EnterFirstPage
    \/ LoopScroll
    \/ LoopExit
    \/ ReturnPage
    \/ NextPage
    \/ LastPage
    \/ Close

Spec == Init /\ [][Next]_vars

\* __main__: get_photo_urls(args.album_url, browser, output='cli')
InitMain == Init /\ output = "cli" /\ progressbar = TRUE

\* the command-line run is one sequential process: a step that can be taken
\* is taken
FairSpec == InitMain /\ [][Next]_vars /\ WF_vars(Next)

InitURL ==
    /\ hotlink \in [sub : Subdomains, farm : FarmIds, id : ImageIds,
                    sfxA : Suffixes, sfxB : Suffixes]
    /\ resA = Pending /\ resB = Pending
    /\ album = [kind |-> "small", pages |-> 1, batch |-> 0]
    /\ page = 0 /\ title_bad = FALSE /\ has_awake = FALSE /\ loaded = 0
    /\ closeCalls = 0
    /\ pc = "idle"
    /\ output = "none"
    /\ progressbar = FALSE
    /\ urls = {} /\ num_of_urls = 0 /\ photo_urls = {}
    /\ err = NoError /\ image_elems = <<>> /\ elem_idx = 0
    /\ out = <<>> /\ scrolls = 0 /\ increases = 0 /\ clicks = 0
    /\ pageSets = <<>>

NextURL == ConvertA \/ ConvertB

SpecURL == InitURL /\ [][NextURL]_vars

(***************************************************************************)
(* Claims                                                                  *)
(***************************************************************************)
BothDone == resA.state = "done" /\ resB.state = "done"
Expected == [ok |-> TRUE, value |-> ExpectedEmbed(hotlink.farm, hotlink.id)]

\* the image id itself ends like a size suffix: '_' and a non-blank character
EndsLikeSuffix(id) ==
    Len(id) >= 2 /\ id[Len(id) - 1] = "_" /\ ~IsSpace(id[Len(id)])
NoLineBreak(id) == \A j \in 1..Len(id) : id[j] # "\n"
\* the URL <id><sfx>.jpg is one the pattern splits into id and sfx
Splits(id, sfx) ==
    /\ NoLineBreak(id)
    /\ sfx # <<>> => ~IsSpace(sfx[2])
    /\ sfx = <<>> => ~EndsLikeSuffix(id)

\* a non-empty image id and suffixes without any blank character
PlainInput ==
    /\ hotlink.id # <<>>
    /\ \A j \in 1..Len(hotlink.id) : ~IsSpace(hotlink.id[j])
    /\ \A sfx \in {hotlink.sfxA, hotlink.sfxB} : sfx # <<>> => ~IsSpace(sfx[2])

\* C1 as stated (here for URLs without blank characters only): any two
\* well-formed hotlink URLs that differ only in the optional size suffix are
\* converted to the same embed URL, which is
\* https://farm<farm_id>.staticflickr.com/<image_id>.jpg.
C1_SameEmbedForAnySuffix ==
    (BothDone /\ PlainInput) => (resA.res = resB.res /\ resA.res = Expected)

\* C1 amended: the two URLs are converted to that same embed URL when the
\* image id has no line break, each suffix is absent or '_' and one
\* non-blank character, and the image id of a URL without suffix does not
\* itself end in '_' and one non-blank character; a URL outside these cases
\* is not converted to that embed URL.
C1_SameEmbedForSplittableUrls ==
    BothDone =>
        /\ Splits(hotlink.id, hotlink.sfxA) <=> resA.res = Expected
        /\ Splits(hotlink.id, hotlink.sfxB) <=> resB.res = Expected

C1_Witness ==
    /\ BothDone
    /\ hotlink.sfxA = <<>> /\ hotlink.sfxB = <<"_", "b">>
    /\ hotlink.id = <<"_", "7", "a">>
    /\ resA.res = resB.res /\ resA.res = Expected

Emitted == { out[i].code.src : i \in DOMAIN out }

\* C2: with output == 'cli', no embed URL is printed more than once during
\* one get_photo_urls traversal, also when a photo is on two pages.
C2_NoEmbedUrlPrintedTwice == Cardinality(Emitted) = Len(out)

\* C3 as stated: when the scroll loop of a page has ended, it has made one
\* scroll more than the scrolls that raised the count: it never stops after
\* a scroll that raised the count.
C3_OneScrollConfirmsThePlateau == pc = "rescan" => scrolls = increases + 1

\* C3 amended: while the loop goes on every scroll so far raised the count;
\* when it has ended with a count below 100 it has made exactly one scroll
\* more than the scrolls that raised the count, and when it has ended with
\* a count of 100 or more it stopped right after a scroll that raised the
\* count; the set handed to the last scan has the plateaued count, and the
\* set returned is that set with what the last scan found.
C3_PlateauOrHundred ==
    /\ pc = "loop" => (scrolls = increases /\ Cardinality(urls) = num_of_urls)
    /\ pc = "rescan" =>
          /\ Cardinality(urls) = num_of_urls
          /\ IF num_of_urls < MaxNumOfUrls
             THEN scrolls = increases + 1
             ELSE scrolls = increases
    /\ pc = "paginate" =>
          /\ pageSets[Len(pageSets)] = urls
          /\ num_of_urls <= Cardinality(urls)

C3_Witness ==
    pc = "rescan" /\ increases = 3 /\ scrolls = 4 /\ num_of_urls < MaxNumOfUrls

Returned == pc \in {"finally", "exit"} /\ err = NoError

\* C4: the set get_photo_urls returns is the union of the sets that
\* _get_page_photos returned for the first page and every follow-up page.
C4_ResultIsUnionOfPages ==
    /\ pc = "paginate" =>
          photo_urls = UNION { pageSets[i] : i \in DOMAIN pageSets }
    /\ Returned =>
          /\ photo_urls = UNION { pageSets[i] : i \in DOMAIN pageSets }
          /\ Len(pageSets) = album.pages

C4_Witness ==
    /\ Returned /\ Len(pageSets) = 2
    /\ pageSets[1] \cap pageSets[2] # {}
    /\ pageSets[1] \ pageSets[2] # {}
    /\ Cardinality(photo_urls) = 2

HasJpgExtension(u) == Len(u) >= 4 /\ LitAt(u, Len(u) - 3, DotJpg)
ConversionFailed == err.type = "AttributeError" /\ err.url # <<>>

\* C5: a URL that does not match the hotlink pattern (such as one without
\* the '.jpg' extension) is never converted: no element with such a URL is
\* emitted, and in a traversal the error is raised at once, naming the URL
\* of the element the loop was at, every element before it having been
\* converted, with that element neither emitted nor added to the known set
\* and no result returned.
C5_MalformedUrlIsFatal ==
    /\ \A i \in DOMAIN out : HasJpgExtension(out[i].elem.url)
    /\ ConversionFailed =>
          /\ pc \in {"finally", "exit"}
          /\ elem_idx \in 1..Len(image_elems)
          /\ image_elems[elem_idx].url = err.url
          /\ ~HotlinkMatch(err.url).ok
          /\ \A j \in 1..(elem_idx - 1) :
                /\ image_elems[j].style_ok
                /\ HotlinkMatch(image_elems[j].url).ok
          /\ \A i \in DOMAIN out : out[i].elem.url # err.url
          /\ output = "cli" => urls \subseteq Emitted
          /\ Len(pageSets) < page

C5_Witness ==
    /\ ConversionFailed /\ pc = "exit" /\ output = "cli"
    /\ ~HasJpgExtension(err.url)
    /\ elem_idx < Len(image_elems)
    /\ out # <<>>

\* C6: every emitted snippet carries width 500 and height 334 exactly when
\* its element's style width exceeds its style height, and width 334 and
\* height 500 otherwise, the tie included.
C6_DimensionsFollowOrientation ==
    \A i \in DOMAIN out :
        LET e == out[i].elem
            c == out[i].code
        IN  IF e.width > e.height
            THEN c.width = 500 /\ c.height = 334
            ELSE c.width = 334 /\ c.height = 500

C6_Witness ==
    \E i \in DOMAIN out :
        /\ out[i].elem.width = out[i].elem.height
        /\ out[i].code.width = 334 /\ out[i].code.height = 500

\* C7: when the command-line run has ended, by a return or by any error,
\* browser.close() has been called exactly once, and it is called only as
\* the last step of the run.
C7_BrowserClosedOnEveryExit ==
    /\ pc = "exit" => closeCalls = 1
    /\ pc # "exit" => closeCalls = 0

C7_Witness == pc = "exit" /\ ConversionFailed /\ closeCalls = 1

NothingDone ==
    /\ pc \in {"finally", "exit"}
    /\ scrolls = 0 /\ clicks = 0 /\ out = <<>> /\ pageSets = <<>>
    /\ photo_urls = {} /\ urls = {}

\* C8: after navigation, a title that shows an unreachable destination
\* raises the navigation error whatever else the page holds, and otherwise
\* a page without photo marker raises the not-an-album error; in both
\* cases nothing is scrolled, emitted or returned.
C8_BadEntryPageFailsFirst ==
    pc # "start" =>
        /\ title_bad => (err = SiteProblem /\ NothingDone)
        /\ (~title_bad /\ ~has_awake) => (err = NotAnAlbum /\ NothingDone)
        /\ (~title_bad /\ has_awake) => err \notin {SiteProblem, NotAnAlbum}

C8_Witness ==
    pc = "exit" /\ title_bad /\ ~has_awake /\ err = SiteProblem

\* C9: the scroll loop of a page makes at most 100 scroll-and-wait cycles.
C9_AtMostHundredScrolls == scrolls <= MaxNumOfUrls

C9_Witness == scrolls = MaxNumOfUrls /\ pc = "rescan"

\* C10 as stated: every run ends with get_photo_urls having returned
\* normally after exactly P-1 activations of the next-page control.
C10_AlwaysReturnsNormally ==
    (pc = "exit" /\ ~title_bad /\ has_awake) =>
        (err = NoError /\ clicks = album.pages - 1)

\* C10 amended: every run ends; the control missing on the last page is
\* never surfaced as an error but ends get_photo_urls with a normal return,
\* after exactly P-1 activations; the control of a page is activated only
\* after the scroll loop and last scan of that page, each activation moves
\* to the next page, and a page is scanned only after the activation that
\* leads to it. The run ends with an error instead when the entry page is
\* bad, the photo count is missing or an element cannot be parsed.
C10_PaginationEndsNormally ==
    /\ [](err # NoNextButton)
    /\ [](pc \in {"loop", "rescan"} =>
            (clicks = page - 1 /\ Len(pageSets) = page - 1))
    /\ [](pc = "paginate" => (clicks = page - 1 /\ Len(pageSets) = page))
    /\ [](Returned => (page = album.pages /\ clicks = album.pages - 1))
    /\ [][clicks' # clicks =>
            /\ pc = "paginate" /\ pc' = "loop"
            /\ clicks' = clicks + 1 /\ page' = page + 1]_vars
    /\ [][(pc = "paginate" /\ page = album.pages) => Returned']_vars
    /\ <>(pc = "exit")

C10_Witness ==
    pc = "exit" /\ err = NoError /\ album.pages = 2 /\ clicks = 1
    /\ album.kind = "small"

====
